---- MODULE Spec2Model ----
(***************************************************************************)
(* payzcore python-sdk: the HTTP transport core (client.py) and the        *)
(* webhook verifier (webhook.py).                                          *)
(*                                                                         *)
(* Python values are modelled as follows.  An Optional[T] is a sequence of *)
(* length 0 (None) or 1.  An exception object is a record whose cls field  *)
(* names its class; PayzCoreError and its subclasses also carry message,   *)
(* status and code.  Durations are in milliseconds.                        *)
(***************************************************************************)
EXTENDS Integers, Sequences, FiniteSets, TLC

\* Largest max_retries a client of the model is constructed with.
MaxRetries == 2

\* client.py: RETRY_BASE_S = 0.2 seconds.
RETRY_BASE_MS == 200

NoneVal == <<>>
Some(x) == <<x>>

(***************************************************************************)
(* The HTTP transport capability: what one self._client.request call can   *)
(* give back.  Either an exception (no response at all) or a response with *)
(* a status, a reason phrase, a body and the two rate-limit headers.       *)
(***************************************************************************)
Statuses == {200, 302, 400, 401, 403, 404, 409, 422, 429, 500, 503}

BODY_ERROR == "{\"error\":\"boom\",\"details\":[\"amount\"]}"
BODY_EMPTY_OBJECT == "{}"
BODY_ARRAY == "[1]"
BODY_TEXT == "<html>oops</html>"

ResponseBodies == {BODY_ERROR, BODY_EMPTY_OBJECT, BODY_ARRAY, BODY_TEXT}

ReasonPhrases == {"Reason", ""}

ResetHeaders == {NoneVal, Some("60"), Some("soon")}

DailyHeaders == {NoneVal, Some("true"), Some("True")}

TransportExceptions == {"ConnectError"}

\* The reason phrase is read only when the body is not JSON; the other bodies
\* come with the non-empty phrase.
Responses ==
    { r \in [kind : {"response"}, status : Statuses, body : ResponseBodies,
             reason : ReasonPhrases, reset : ResetHeaders, daily : DailyHeaders] :
        r.body # BODY_TEXT => r.reason = "Reason" }

TransportOutcomes ==
    [kind : {"exception"}, exc : TransportExceptions] \cup Responses

\* httpx.Response.is_success
is_success(response) == response.status >= 200 /\ response.status <= 299

\* httpx.Response.json(): the parsed body, or ok = FALSE where json raises
\* JSONDecodeError.  A JSON object is a function from its keys to its values;
\* a JSON array or a missing "details" is a sequence.
response_json(body) ==
    CASE body = BODY_ERROR ->
            [ok |-> TRUE, type |-> "object",
             fields |-> ("error" :> "boom" @@ "details" :> <<"amount">>)]
      [] body = BODY_EMPTY_OBJECT ->
            [ok |-> TRUE, type |-> "object", fields |-> <<>>]
      [] body = BODY_ARRAY ->
            [ok |-> TRUE, type |-> "array", fields |-> <<>>]
      [] OTHER ->
            [ok |-> FALSE, type |-> "none", fields |-> <<>>]

\* int(reset_header): ok = FALSE where int raises ValueError.
int_of(s) ==
    CASE s = "60" -> [ok |-> TRUE, value |-> 60]
      [] OTHER -> [ok |-> FALSE, value |-> 0]

(***************************************************************************)
(* errors.py                                                               *)
(***************************************************************************)
PayzCoreError(message, status, code) ==
    [cls |-> "PayzCoreError", message |-> message, status |-> status, code |-> code]

ValidationError(message, details) ==
    [cls |-> "ValidationError", message |-> message, status |-> 400,
     code |-> "validation_error", details |-> details]

AuthenticationError(message) ==
    [cls |-> "AuthenticationError", message |-> message, status |-> 401,
     code |-> "authentication_error"]

ForbiddenError(message) ==
    [cls |-> "ForbiddenError", message |-> message, status |-> 403, code |-> "forbidden"]

NotFoundError(message) ==
    [cls |-> "NotFoundError", message |-> message, status |-> 404, code |-> "not_found"]

IdempotencyError(message) ==
    [cls |-> "IdempotencyError", message |-> message, status |-> 409,
     code |-> "idempotency_error"]

RateLimitError(message, retry_after, is_daily) ==
    [cls |-> "RateLimitError", message |-> message, status |-> 429,
     code |-> "rate_limit_error", retry_after |-> retry_after, is_daily |-> is_daily]

\* An exception that is not part of the SDK's hierarchy (a builtin or an httpx one).
ForeignException(cls) == [cls |-> cls]

PayzCoreErrorClasses ==
    {"PayzCoreError", "ValidationError", "AuthenticationError", "ForbiddenError",
     "NotFoundError", "IdempotencyError", "RateLimitError"}

\* isinstance(e, PayzCoreError)
IsPayzCoreError(e) == e.cls \in PayzCoreErrorClasses

(***************************************************************************)
(* client.py: _build_api_error.  built = TRUE with the error it returns,   *)
(* or built = FALSE with the exception that escapes it.                    *)
(***************************************************************************)
dict_get(fields, key, default) ==
    IF key \in DOMAIN fields THEN fields[key] ELSE default

_build_api_error(response) ==
    LET parsed == response_json(response.body)
        \* lines 144-147: a body that is not JSON becomes {"error": reason or placeholder}
        body == IF parsed.ok
                  THEN parsed
                  ELSE [ok |-> TRUE, type |-> "object",
                        fields |-> ("error" :> (IF response.reason # ""
                                                  THEN response.reason
                                                  ELSE "Unknown error"))]
        message == dict_get(body.fields, "error", "Unknown error")
        status == response.status
    IN  IF body.type # "object"
          THEN \* line 149: list has no attribute get
               [built |-> FALSE, error |-> ForeignException("AttributeError")]
        ELSE IF status = 400
          THEN [built |-> TRUE,
                error |-> ValidationError(message, dict_get(body.fields, "details", NoneVal))]
        ELSE IF status = 401
          THEN [built |-> TRUE, error |-> AuthenticationError(message)]
        ELSE IF status = 403
          THEN [built |-> TRUE, error |-> ForbiddenError(message)]
        ELSE IF status = 404
          THEN [built |-> TRUE, error |-> NotFoundError(message)]
        ELSE IF status = 409
          THEN [built |-> TRUE, error |-> IdempotencyError(message)]
        ELSE IF status = 429
          THEN LET reset_header == response.reset
                   daily_header == response.daily
               IN  IF reset_header # NoneVal /\ reset_header[1] # ""
                      /\ ~int_of(reset_header[1]).ok
                     THEN \* line 165: int() raises ValueError
                          [built |-> FALSE, error |-> ForeignException("ValueError")]
                     ELSE [built |-> TRUE,
                           error |-> RateLimitError(
                               message,
                               IF reset_header # NoneVal /\ reset_header[1] # ""
                                 THEN Some(int_of(reset_header[1]).value)
                                 ELSE NoneVal,
                               daily_header = Some("true"))]
        ELSE [built |-> TRUE, error |-> PayzCoreError(message, status, "api_error")]

(***************************************************************************)
(* client.py: HttpClient.request, lines 66-107.                            *)
(***************************************************************************)
\* HttpClient.__init__: the constructor arguments of the model's clients.
DEFAULT_BASE_URL == "https://api.payzcore.com"

DEFAULT_TIMEOUT == 30

DEFAULT_MAX_RETRIES == 2

ApiKeys == {"pk_live_1", "mk_1"}

BaseUrls == {DEFAULT_BASE_URL, "https://sandbox.payzcore.test/"}

Timeouts == {DEFAULT_TIMEOUT, 5}

\* line 40: base_url.rstrip("/")
rstrip_slash(url) ==
    CASE url = "https://sandbox.payzcore.test/" -> "https://sandbox.payzcore.test"
      [] OTHER -> url

\* _headers that sends the key under both names
_headers_both(key, master) ==
    ("Content-Type" :> "application/json") @@ ("User-Agent" :> "payzcore-python/1.0.0")
        @@ ("x-master-key" :> key) @@ ("x-api-key" :> key)

\* lines 45-54
_headers(key, master) ==
    ("Content-Type" :> "application/json") @@ ("User-Agent" :> "payzcore-python/1.0.0")
        @@ (IF master THEN "x-master-key" :> key ELSE "x-api-key" :> key)

\* What self._client.request gives a closed client: it raises, nothing is sent.
REFUSED == [kind |-> "exception", exc |-> "RuntimeError"]

\* the captured error kept from the first failed attempt on
NextLastError_keeps_first(last, error) == IF last # NoneVal THEN last ELSE Some(error)

\* lines 90 and 103: last_error = ...
NextLastError(last, error) == Some(error)

\* BackoffDelay with the exponent off by one: 2 ** attempt
BackoffDelay_exponent_off_by_one(attempt) == RETRY_BASE_MS * (2 ^ attempt)

\* line 68: the sleep before attempt number `attempt` (attempt >= 1)
BackoffDelay(attempt) == RETRY_BASE_MS * (2 ^ (attempt - 1))

\* TryBlock that returns the text of a successful response
TryBlock_returns_text(outcome) ==
    IF outcome.kind = "exception"
      THEN [ctl |-> "continue", error |-> ForeignException(outcome.exc), value |-> NoneVal]
    ELSE IF is_success(outcome)
      THEN [ctl |-> "return", error |-> NoneVal,
            value |-> Some([ok |-> TRUE, type |-> "text", fields |-> <<>>])]
    ELSE LET b == _build_api_error(outcome)
         IN  IF outcome.status < 500 /\ b.built
               THEN [ctl |-> "raise", error |-> b.error, value |-> NoneVal]
               ELSE [ctl |-> "continue", error |-> b.error, value |-> NoneVal]

\* lines 70-103: the body of one loop iteration, given what the transport gave
\* back.  ctl = "return" (line 79), "raise" (line 101) or "continue" (the
\* iteration ends with last_error set, lines 90 and 103).
TryBlock(outcome) ==
    IF outcome.kind = "exception"
      THEN \* line 102: the transport raised; except Exception
           [ctl |-> "continue", error |-> ForeignException(outcome.exc), value |-> NoneVal]
    ELSE IF is_success(outcome)
      THEN LET parsed == response_json(outcome.body)
           IN  IF parsed.ok
                 THEN [ctl |-> "return", error |-> NoneVal, value |-> Some(parsed)]
                 ELSE \* line 79 raises JSONDecodeError, caught at line 102
                      [ctl |-> "continue", error |-> ForeignException("JSONDecodeError"),
                       value |-> NoneVal]
    ELSE LET b == _build_api_error(outcome)
         IN  IF outcome.status < 500
               THEN \* lines 82-87: _raise_api_error
                    IF b.built
                      THEN [ctl |-> "raise", error |-> b.error, value |-> NoneVal]
                      ELSE \* not a PayzCoreError: falls to except Exception, line 102
                           [ctl |-> "continue", error |-> b.error, value |-> NoneVal]
               ELSE \* line 90, or line 103 when _build_api_error itself raised
                    [ctl |-> "continue", error |-> b.error, value |-> NoneVal]

(***************************************************************************)
(* webhook.py.  Strings are TLA+ strings; the byte sequence a signature    *)
(* covers is built by concatenation.  Timestamps denote seconds since      *)
(* 2024-01-01T00:00:00Z.                                                    *)
(***************************************************************************)
SUPPORTED_NETWORKS == {"TRC20", "BEP20", "ERC20", "POLYGON", "ARBITRUM"}

SUPPORTED_TOKENS == {"USDT", "USDC"}

\* JSON values: a string, null (Python None) or an object.
JStr(s) == [t |-> "str", v |-> s]
JNull == [t |-> "null"]
JObj(f) == [t |-> "obj", v |-> f]

\* Python truthiness of a JSON value
Truthy(x) ==
    CASE x.t = "str" -> x.v # ""
      [] x.t = "obj" -> DOMAIN x.v # {}
      [] OTHER -> FALSE

\* Webhook bodies as received.  WB_PAID_ALT differs from WB_PAID in one byte.
WB_PAID ==
    "{\"event\":\"payment.completed\",\"payment_id\":\"p1\",\"external_ref\":\"u1\",\"network\":\"TRC20\",\"token\":\"USDT\",\"address\":\"T1\",\"expected_amount\":\"50.00\",\"paid_amount\":\"50.00\",\"tx_hash\":\"0xab\",\"status\":\"paid\",\"timestamp\":\"2024-01-01T00:10:00Z\"}"
WB_PAID_ALT ==
    "{\"event\":\"payment.completed\",\"payment_id\":\"p1\",\"external_ref\":\"u1\",\"network\":\"TRC20\",\"token\":\"USDT\",\"address\":\"T1\",\"expected_amount\":\"50.00\",\"paid_amount\":\"51.00\",\"tx_hash\":\"0xab\",\"status\":\"paid\",\"timestamp\":\"2024-01-01T00:10:00Z\"}"
WB_NO_PAYMENT_ID ==
    "{\"event\":\"payment.completed\",\"external_ref\":\"u1\",\"network\":\"TRC20\"}"
WB_ARRAY == "[1]"
WB_TEXT == "payment=p1"

WebhookBodies == {WB_PAID, WB_PAID_ALT, WB_NO_PAYMENT_ID, WB_ARRAY, WB_TEXT, ""}

PaidFields(paid_amount) ==
    "event" :> JStr("payment.completed") @@ "payment_id" :> JStr("p1")
    @@ "external_ref" :> JStr("u1") @@ "network" :> JStr("TRC20")
    @@ "token" :> JStr("USDT") @@ "address" :> JStr("T1")
    @@ "expected_amount" :> JStr("50.00") @@ "paid_amount" :> JStr(paid_amount)
    @@ "tx_hash" :> JStr("0xab") @@ "status" :> JStr("paid")
    @@ "timestamp" :> JStr("2024-01-01T00:10:00Z")

\* The bodies a sender can serialise.  A document is the object of WB_PAID
\* with at most MaxDeviations of its members changed: a member left out, a
\* null, another value, or one of the optional members added.
MaxDeviations == 2

\* The members in the order the sender writes them.
WireKeys ==
    <<"event", "payment_id", "external_ref", "network", "token", "address",
      "expected_amount", "paid_amount", "tx_hash", "status", "timestamp",
      "external_order_id", "buyer_email", "buyer_name", "buyer_note",
      "payment_link_id", "payment_link_slug">>

WireKeySet == {WireKeys[i] : i \in 1 .. Len(WireKeys)}

Absent == [t |-> "absent"]

\* What a member can be instead of what WB_PAID has for it.
Alternatives(k) ==
    CASE k = "network" -> {Absent, JStr("SOLANA")}
      [] k = "token" -> {Absent, JNull, JStr("DAI")}
      [] k \in DOMAIN PaidFields("50.00") -> {Absent}
      [] OTHER -> {JNull, JStr("x1")}

Deviations ==
    UNION {{f \in [S -> {Absent, JNull, JStr("SOLANA"), JStr("DAI"), JStr("x1")}] :
                \A k \in S : f[k] \in Alternatives(k)} :
           S \in {T \in SUBSET WireKeySet : Cardinality(T) <= MaxDeviations}}

\* The object a deviation f makes of WB_PAID's object.
Document(f) ==
    LET base == PaidFields("50.00")
        keys == {k \in WireKeySet :
                    IF k \in DOMAIN f THEN f[k] # Absent ELSE k \in DOMAIN base}
    IN  [k \in keys |-> IF k \in DOMAIN f THEN f[k] ELSE base[k]]

Documents == {Document(f) : f \in Deviations}

\* The text of one member and of the members from the i-th wire key on.
json_member(k, v) ==
    "\"" \o k \o "\":" \o (IF v.t = "null" THEN "null" ELSE "\"" \o v.v \o "\"")

RECURSIVE json_members(_, _, _)
json_members(doc, i, first) ==
    IF i > Len(WireKeys) THEN ""
    ELSE IF WireKeys[i] \notin DOMAIN doc THEN json_members(doc, i + 1, first)
    ELSE (IF first THEN "" ELSE ",") \o json_member(WireKeys[i], doc[WireKeys[i]])
            \o json_members(doc, i + 1, FALSE)

\* The sender's json.dumps(doc, separators=(",", ":"))
json_dumps(doc) == "{" \o json_members(doc, 1, TRUE) \o "}"

\* Each serialised document with the object json.loads makes of it.
Serialised == {<<json_dumps(doc), doc>> : doc \in Documents}

SerialisedBodies == {p[1] : p \in Serialised}

\* json.loads(body): ok = FALSE where it raises JSONDecodeError
json_loads(body) ==
    CASE body = WB_PAID ->
            [ok |-> TRUE, type |-> "object", fields |-> PaidFields("50.00")]
      [] body = WB_PAID_ALT ->
            [ok |-> TRUE, type |-> "object", fields |-> PaidFields("51.00")]
      [] body = WB_NO_PAYMENT_ID ->
            [ok |-> TRUE, type |-> "object",
             fields |-> ("event" :> JStr("payment.completed")
                         @@ "external_ref" :> JStr("u1") @@ "network" :> JStr("TRC20"))]
      [] body = WB_ARRAY ->
            [ok |-> TRUE, type |-> "array", fields |-> <<>>]
      [] body \in SerialisedBodies ->
            [ok |-> TRUE, type |-> "object",
             fields |-> (CHOOSE p \in Serialised : p[1] = body)[2]]
      [] OTHER ->
            [ok |-> FALSE, type |-> "none", fields |-> <<>>]

\* Timestamp header values.  TS_NEXT_Z differs from TS_BASE_Z in one byte;
\* TS_BASE_OFFSET names the instant of TS_BASE_Z with other bytes.
TS_BASE_Z == "2024-01-01T00:10:00Z"
TS_NEXT_Z == "2024-01-01T00:10:01Z"
TS_BASE_OFFSET == "2024-01-01T00:10:00+00:00"
TS_NEXT_OFFSET == "2024-01-01T00:10:01+00:00"
TS_NAIVE == "2024-01-01T00:10:00"
TS_GARBAGE == "yesterday"

TimestampStrings == {TS_BASE_Z, TS_NEXT_Z, TS_BASE_OFFSET, TS_NAIVE, TS_GARBAGE, ""}

\* timestamp.replace("Z", "+00:00")
replace_Z(timestamp) ==
    CASE timestamp = TS_BASE_Z -> TS_BASE_OFFSET
      [] timestamp = TS_NEXT_Z -> TS_NEXT_OFFSET
      [] OTHER -> timestamp

\* datetime.fromisoformat(s): ok = FALSE where it raises ValueError; aware
\* tells whether the result carries a UTC offset.
fromisoformat(s) ==
    CASE s = TS_BASE_OFFSET -> [ok |-> TRUE, aware |-> TRUE, seconds |-> 600]
      [] s = TS_NEXT_OFFSET -> [ok |-> TRUE, aware |-> TRUE, seconds |-> 601]
      [] s = TS_NAIVE -> [ok |-> TRUE, aware |-> FALSE, seconds |-> 600]
      [] OTHER -> [ok |-> FALSE, aware |-> FALSE, seconds |-> 0]

\* abs_diff_seconds without the abs: a timestamp in the future is never too far
abs_diff_seconds_signed(now, ts) == now - ts

\* line 59: abs((now - ts).total_seconds())
abs_diff_seconds(now, ts) == IF now >= ts THEN now - ts ELSE ts - now

\* signed_message without the timestamp: the signature covers the body alone
signed_message_body_only(timestamp, body) == body

\* line 66: the bytes the signature covers
signed_message(timestamp, body) == timestamp \o "." \o body

\* hmac.new(secret, message, sha256).hexdigest(): HMAC-SHA256 taken as a
\* collision-free function of (secret, message); the digest is written as the
\* string naming the pair.
hexdigest(secret, message) == "hmac-sha256(" \o secret \o ";" \o message \o ")"

\* Signature header values that are no digest: wrong length, not hex, and a
\* string holding a non-ASCII character.
SIG_SHORT == "abc123"
SIG_NOT_HEX == "zzzzzzzzzzzzzzzzzzzzzzzzzzzzzzzzzzzzzzzzzzzzzzzzzzzzzzzzzzzzzzzz"
SIG_NON_ASCII == "<64 chars, one of them U+00E9>"

\* str.isascii
is_ascii(s) == s # SIG_NON_ASCII

\* hmac.compare_digest(a, b) on two str: raises TypeError unless both are ASCII
compare_digest(a, b) ==
    IF is_ascii(a) /\ is_ascii(b)
      THEN [kind |-> "return", value |-> a = b]
      ELSE [kind |-> "raise", error |-> ForeignException("TypeError")]

Returned(value) == [kind |-> "return", value |-> value]

WebhookSignatureError(message) == [cls |-> "WebhookSignatureError", message |-> message]

\* webhook.py: verify_signature, lines 46-72, with datetime.now() = now.
\* timestamp is an Optional[str].
verify_signature(body, signature, secret, timestamp, tolerance_seconds, now) ==
    IF secret = "" \/ signature = "" \/ body = ""
      THEN Returned(FALSE)
    ELSE IF timestamp = NoneVal \/ timestamp = Some("")
      THEN Returned(FALSE)
    ELSE LET ts == fromisoformat(replace_Z(timestamp[1]))
         IN  IF ~ts.ok
               THEN Returned(FALSE)     \* ValueError, line 62
             ELSE IF ~ts.aware
               THEN Returned(FALSE)     \* now - ts raises TypeError, line 62
             ELSE IF abs_diff_seconds(now, ts.seconds) > tolerance_seconds
               THEN Returned(FALSE)
             ELSE compare_digest(signature,
                                 hexdigest(secret, signed_message(timestamp[1], body)))

\* RequiredFields with status read by raw.get
RequiredFields_without_status ==
    <<"event", "payment_id", "external_ref", "network", "address",
      "expected_amount", "paid_amount", "timestamp">>

RequiredFields ==
    <<"event", "payment_id", "external_ref", "network", "address",
      "expected_amount", "paid_amount", "status", "timestamp">>

OptionalFields ==
    <<"external_order_id", "buyer_email", "buyer_name", "buyer_note",
      "payment_link_id", "payment_link_slug">>

\* raw.get(key, default) with the default a JSON value
raw_get(raw, key, default) == IF key \in DOMAIN raw THEN raw[key] ELSE default

\* parse_warnings that looks the token up among the networks
parse_warnings_token_among_networks(raw) ==
    LET network == raw_get(raw, "network", JStr(""))
        token == raw_get(raw, "token", JStr(""))
        known(x, supported) == x.t = "str" /\ x.v \in supported
    IN  (IF Truthy(network) /\ ~known(network, SUPPORTED_NETWORKS)
           THEN <<[field |-> "network", value |-> network]>> ELSE <<>>)
        \o
        (IF Truthy(token) /\ ~known(token, SUPPORTED_NETWORKS)
           THEN <<[field |-> "token", value |-> token]>> ELSE <<>>)

\* The diagnostics lines 88-94 emit for a parsed object
parse_warnings(raw) ==
    LET network == raw_get(raw, "network", JStr(""))
        token == raw_get(raw, "token", JStr(""))
        known(x, supported) == x.t = "str" /\ x.v \in supported
    IN  (IF Truthy(network) /\ ~known(network, SUPPORTED_NETWORKS)
           THEN <<[field |-> "network", value |-> network]>> ELSE <<>>)
        \o
        (IF Truthy(token) /\ ~known(token, SUPPORTED_TOKENS)
           THEN <<[field |-> "token", value |-> token]>> ELSE <<>>)

\* build_payload that copies an optional member whenever the body has it
build_payload_keeps_nulls(raw) ==
    LET present == {k \in {OptionalFields[i] : i \in 1 .. Len(OptionalFields)} :
                        k \in DOMAIN raw}
        keys == {RequiredFields[i] : i \in 1 .. Len(RequiredFields)}
                    \cup {"token", "tx_hash", "paid_at", "metadata"} \cup present
    IN  [k \in keys |->
            CASE k = "token" -> raw_get(raw, "token", JStr("USDT"))
              [] k = "tx_hash" -> raw_get(raw, "tx_hash", JNull)
              [] k = "paid_at" -> raw_get(raw, "paid_at", JNull)
              [] k = "metadata" -> raw_get(raw, "metadata", JObj(<<>>))
              [] OTHER -> raw[k]]

\* build_payload with the token fixed to the default
build_payload_token_fixed(raw) ==
    LET present == {k \in {OptionalFields[i] : i \in 1 .. Len(OptionalFields)} :
                        raw_get(raw, k, JNull) # JNull}
        keys == {RequiredFields[i] : i \in 1 .. Len(RequiredFields)}
                    \cup {"token", "tx_hash", "paid_at", "metadata"} \cup present
    IN  [k \in keys |->
            CASE k = "token" -> JStr("USDT")
              [] k = "tx_hash" -> raw_get(raw, "tx_hash", JNull)
              [] k = "paid_at" -> raw_get(raw, "paid_at", JNull)
              [] k = "metadata" -> raw_get(raw, "metadata", JObj(<<>>))
              [] OTHER -> raw[k]]

\* lines 96-123: the payload built from a parsed object with every required key
build_payload(raw) ==
    LET present == {k \in {OptionalFields[i] : i \in 1 .. Len(OptionalFields)} :
                        raw_get(raw, k, JNull) # JNull}
        keys == {RequiredFields[i] : i \in 1 .. Len(RequiredFields)}
                    \cup {"token", "tx_hash", "paid_at", "metadata"} \cup present
    IN  [k \in keys |->
            CASE k = "token" -> raw_get(raw, "token", JStr("USDT"))
              [] k = "tx_hash" -> raw_get(raw, "tx_hash", JNull)
              [] k = "paid_at" -> raw_get(raw, "paid_at", JNull)
              [] k = "metadata" -> raw_get(raw, "metadata", JObj(<<>>))
              [] OTHER -> raw[k]]

\* webhook.py: parse_webhook, lines 86-125.  warnings are the diagnostics it
\* logged before returning or raising.
parse_webhook(body) ==
    LET parsed == json_loads(body)
    IN  IF ~parsed.ok
          THEN [kind |-> "raise", error |-> ForeignException("JSONDecodeError"),
                warnings |-> <<>>]
        ELSE IF parsed.type # "object"
          THEN \* line 88: the parsed value has no get
               [kind |-> "raise", error |-> ForeignException("AttributeError"),
                warnings |-> <<>>]
        ELSE IF \E i \in 1 .. Len(RequiredFields) : RequiredFields[i] \notin DOMAIN parsed.fields
          THEN \* lines 97-109: raw[key] raises KeyError
               [kind |-> "raise", error |-> ForeignException("KeyError"),
                warnings |-> parse_warnings(parsed.fields)]
        ELSE [kind |-> "return", value |-> build_payload(parsed.fields),
              warnings |-> parse_warnings(parsed.fields)]

\* construct_event that parses whatever verify_signature said
construct_event_unverified(body, signature, secret, timestamp, tolerance_seconds, now) ==
    LET parsed == parse_webhook(body)
    IN  IF parsed.kind = "raise" /\ parsed.error.cls = "JSONDecodeError"
          THEN [kind |-> "raise", error |-> WebhookSignatureError("Invalid webhook payload"),
                warnings |-> parsed.warnings, parse_calls |-> 1]
        ELSE IF parsed.kind = "raise"
          THEN [kind |-> "raise", error |-> parsed.error, warnings |-> parsed.warnings,
                parse_calls |-> 1]
        ELSE [kind |-> "return", value |-> parsed.value, warnings |-> parsed.warnings,
              parse_calls |-> 1]

\* webhook.py: construct_event, lines 150-156.  parse_calls counts the calls of
\* parse_webhook it made.
construct_event(body, signature, secret, timestamp, tolerance_seconds, now) ==
    LET verified == verify_signature(body, signature, secret, timestamp,
                                     tolerance_seconds, now)
        parsed == parse_webhook(body)
    IN  IF verified.kind = "raise"
          THEN [kind |-> "raise", error |-> verified.error, warnings |-> <<>>,
                parse_calls |-> 0]
        ELSE IF ~verified.value
          THEN [kind |-> "raise",
                error |-> WebhookSignatureError("Webhook signature verification failed"),
                warnings |-> <<>>, parse_calls |-> 0]
        ELSE IF parsed.kind = "raise" /\ parsed.error.cls = "JSONDecodeError"
          THEN [kind |-> "raise", error |-> WebhookSignatureError("Invalid webhook payload"),
                warnings |-> parsed.warnings, parse_calls |-> 1]
        ELSE IF parsed.kind = "raise"
          THEN [kind |-> "raise", error |-> parsed.error, warnings |-> parsed.warnings,
                parse_calls |-> 1]
        ELSE [kind |-> "return", value |-> parsed.value, warnings |-> parsed.warnings,
              parse_calls |-> 1]

\* What a webhook receiver can hold: the envelope of an inbound request.
Secrets == {"whsec_test", "whsec_other", ""}

Timestamps == {NoneVal} \cup {Some(s) : s \in TimestampStrings}

\* Signature header values: every digest a holder of one of the secrets can
\* compute over a timestamp and a body of the model, and the malformed ones.
Signatures ==
    {hexdigest(k, s \o "." \o b) : k \in Secrets, s \in TimestampStrings, b \in WebhookBodies}
        \cup {SIG_SHORT, SIG_NOT_HEX, SIG_NON_ASCII, ""}

DEFAULT_TOLERANCE == 300

Tolerances == {DEFAULT_TOLERANCE, 0}

\* The readings of the system clock, in increasing order.
ClockReadings == <<299, 300, 600, 900, 901>>

Envelopes ==
    [body : WebhookBodies, signature : Signatures, secret : Secrets,
     timestamp : Timestamps, tolerance_seconds : Tolerances]

\* The status an attempt is recorded with: 0 when no response was received.
StatusOf(outcome) == IF outcome.kind = "response" THEN outcome.status ELSE 0

VARIABLES
    api_key,        \* self._api_key
    use_master_key, \* self._use_master_key
    base_url,       \* self._base_url
    timeout,        \* self._timeout, in seconds
    max_retries,    \* self._max_retries
    closed,         \* self._client has been closed
    began_closed,   \* history: the call at hand began after close returned
    sent,           \* history: the headers of each request the call put on the wire
    pc,             \* where the request call is: idle, sleep, send, after, done
    attempt,        \* the loop variable of line 66
    last_error,     \* the local last_error, Optional
    statuses,       \* history: the status each attempt received, 0 where the transport raised
    last_outcome,   \* history: what the transport gave the latest attempt, Optional
    sleeps,         \* history: the durations passed to time.sleep, in order
    result,         \* how the call ended: kind none, return or raise
    clock,          \* datetime.now(timezone.utc), in seconds
    wh_call,        \* the latest call of the webhook API: its name and the envelope at hand
    wh_outcome,     \* what that call returned or raised
    wh_log,         \* the diagnostics that call logged
    parse_calls,    \* the number of times that call ran parse_webhook
    calls,          \* the frames of the request calls that threads make on one client
    scope,          \* the with block the client is used in
    facade          \* the PayzCore object built around the client

configvars == <<api_key, use_master_key, base_url, timeout, max_retries>>

callvars == <<pc, attempt, last_error, statuses, last_outcome, sleeps, result, began_closed, sent>>

httpvars == <<configvars, closed, callvars>>

whvars == <<clock, wh_call, wh_outcome, wh_log, parse_calls>>

usevars == <<calls, scope, facade>>

vars == <<httpvars, whvars, usevars>>

NoResult == [kind |-> "none"]

InitHttp ==
    /\ pc = "idle"
    /\ attempt = 0
    /\ last_error = NoneVal
    /\ statuses = <<>>
    /\ last_outcome = NoneVal
    /\ sleeps = <<>>
    /\ result = NoResult
    /\ closed = FALSE
    /\ began_closed = FALSE
    /\ sent = <<>>

\* The threads that share one client.
Callers == {"A", "B", "C"}

\* The frame of a request call that has not started: the locals of lines 63-66
\* and, as history, the outcomes its attempts received, its sleeps and its end.
IdleCall ==
    [pc |-> "idle", attempt |-> 0, last_error |-> NoneVal, outcomes |-> <<>>,
     sleeps |-> <<>>, result |-> NoResult]

\* No thread calls the client, no with block is open, no PayzCore is built.
InitUse ==
    /\ calls = [c \in Callers |-> IdleCall]
    /\ scope = [state |-> "none"]
    /\ facade = [state |-> "none"]

\* HttpClient.__init__ with the defaults of PayzCore.__init__, but for max_retries
InitDefaults ==
    /\ api_key = "pk_live_1"
    /\ use_master_key = FALSE
    /\ base_url = rstrip_slash(DEFAULT_BASE_URL)
    /\ timeout = DEFAULT_TIMEOUT

InitWebhook ==
    /\ clock = ClockReadings[1]
    /\ wh_call = [op |-> "none"]
    /\ wh_outcome = NoResult
    /\ wh_log = <<>>
    /\ parse_calls = 0

\* HttpClient.__init__, line 41: any max_retries the caller passes
Init ==
    /\ max_retries \in -1 .. MaxRetries
    /\ InitDefaults
    /\ InitHttp
    /\ InitUse
    /\ InitWebhook

\* request whose loop runs at least once
request_at_least_once ==
    /\ pc \in {"idle", "done"}
    /\ attempt' = 0
    /\ last_error' = NoneVal
    /\ statuses' = <<>>
    /\ last_outcome' = NoneVal
    /\ sleeps' = <<>>
    /\ result' = NoResult
    /\ began_closed' = closed
    /\ sent' = <<>>
    /\ pc' = "send"
    /\ UNCHANGED <<configvars, closed, whvars, usevars>>

\* lines 63-66: the call starts; range(max_retries + 1) is empty when max_retries < 0
request ==
    /\ pc \in {"idle", "done"}
    /\ attempt' = 0
    /\ last_error' = NoneVal
    /\ statuses' = <<>>
    /\ last_outcome' = NoneVal
    /\ sleeps' = <<>>
    /\ result' = NoResult
    /\ began_closed' = closed
    /\ sent' = <<>>
    /\ pc' = IF max_retries + 1 > 0 THEN "send" ELSE "after"
    /\ UNCHANGED <<configvars, closed, whvars, usevars>>

\* lines 67-68
Sleep ==
    /\ pc = "sleep"
    /\ sleeps' = Append(sleeps, BackoffDelay(attempt))
    /\ pc' = "send"
    /\ UNCHANGED <<configvars, closed, attempt, last_error, statuses, last_outcome, result,
                   began_closed, sent, whvars, usevars>>

\* lines 70-103: one call of self._client.request and what the loop body does
\* with what it gave back.  On a closed client the call raises before anything
\* is put on the wire; otherwise the request goes out with _headers() and the
\* transport gives back one of `outcomes`.
AttemptFrom(outcomes) ==
    /\ pc = "send"
    /\ sent' = IF closed THEN sent ELSE Append(sent, _headers(api_key, use_master_key))
    /\ \E outcome \in (IF closed THEN {REFUSED} ELSE outcomes) :
         LET t == TryBlock(outcome)
         IN  /\ statuses' = Append(statuses, StatusOf(outcome))
             /\ last_outcome' = Some(outcome)
             /\ IF t.ctl = "return"
                  THEN /\ result' = [kind |-> "return", value |-> t.value[1]]
                       /\ pc' = "done"
                       /\ UNCHANGED <<attempt, last_error>>
                ELSE IF t.ctl = "raise"
                  THEN /\ result' = [kind |-> "raise", error |-> t.error]
                       /\ pc' = "done"
                       /\ UNCHANGED <<attempt, last_error>>
                ELSE /\ last_error' = NextLastError(last_error, t.error)
                     /\ attempt' = attempt + 1
                     /\ pc' = IF attempt + 1 < max_retries + 1 THEN "sleep" ELSE "after"
                     /\ UNCHANGED result
    /\ UNCHANGED <<configvars, closed, sleeps, began_closed, whvars, usevars>>

Attempt == AttemptFrom(TransportOutcomes)

\* lines 105-107
Exhausted ==
    /\ pc = "after"
    /\ result' = [kind |-> "raise",
                  error |-> IF last_error # NoneVal
                              THEN last_error[1]
                              ELSE PayzCoreError("Request failed after retries", 0,
                                                 "network_error")]
    /\ pc' = "done"
    /\ UNCHANGED <<configvars, closed, attempt, last_error, statuses, last_outcome, sleeps,
                   began_closed, sent, whvars, usevars>>

Next == request \/ Sleep \/ Attempt \/ Exhausted

Spec == Init /\ [][Next]_vars

(***************************************************************************)
(* A client of any configuration, its calls and its close.  The transport  *)
(* gives back a success, a terminal failure, a retryable failure or no     *)
(* response.                                                               *)
(***************************************************************************)
ClientOutcomes ==
    {[kind |-> "exception", exc |-> "ConnectError"]}
        \cup {r \in Responses :
                 /\ r.status \in {200, 404, 503}
                 /\ r.body = BODY_ERROR
                 /\ r.reset = NoneVal
                 /\ r.daily = NoneVal}

\* HttpClient.__init__, lines 39-43
ClientInit ==
    /\ api_key \in ApiKeys
    /\ use_master_key \in BOOLEAN
    /\ base_url \in {rstrip_slash(url) : url \in BaseUrls}
    /\ timeout \in Timeouts
    /\ max_retries \in -1 .. MaxRetries
    /\ InitHttp
    /\ InitUse
    /\ InitWebhook

\* Close with the key wiped
Close_wipes_key ==
    /\ closed' = TRUE
    /\ api_key' = ""
    /\ UNCHANGED <<use_master_key, base_url, timeout, max_retries, callvars, whvars, usevars>>

\* lines 121-123: close, from any thread at any time
Close ==
    /\ closed' = TRUE
    /\ UNCHANGED <<configvars, callvars, whvars, usevars>>

ClientAttempt == AttemptFrom(ClientOutcomes)

ClientNext == request \/ Sleep \/ ClientAttempt \/ Exhausted \/ Close

ClientSpec == ClientInit /\ [][ClientNext]_vars

(***************************************************************************)
(* Threads calling request on one shared client.  Each call runs in its    *)
(* own frame; the steps of the calls interleave in any order.              *)
(***************************************************************************)
\* last_error kept in one slot of the client instead of the frame
LastErrorSlot_shared(c) == "A"

\* line 64: last_error is a local of the call, so caller c's lives in c's frame
LastErrorSlot(c) == c

\* lines 63-66 in caller c's frame
CallRequest(c) ==
    /\ calls[c].pc \in {"idle", "done"}
    /\ calls' = [calls EXCEPT
                   ![c] = [IdleCall EXCEPT
                             !.pc = IF max_retries + 1 > 0 THEN "send" ELSE "after"],
                   ![LastErrorSlot(c)].last_error = NoneVal]
    /\ UNCHANGED <<httpvars, whvars, scope, facade>>

\* lines 67-68 in caller c's frame
CallSleep(c) ==
    /\ calls[c].pc = "sleep"
    /\ calls' = [calls EXCEPT ![c].sleeps = Append(@, BackoffDelay(calls[c].attempt)),
                              ![c].pc = "send"]
    /\ UNCHANGED <<httpvars, whvars, scope, facade>>

\* lines 70-103 in caller c's frame
CallAttempt(c) ==
    /\ calls[c].pc = "send"
    /\ \E outcome \in ClientOutcomes :
         LET t == TryBlock(outcome)
             received == [calls EXCEPT ![c].outcomes = Append(@, outcome)]
         IN  calls' =
               IF t.ctl = "return"
                 THEN [received EXCEPT
                         ![c].result = [kind |-> "return", value |-> t.value[1]],
                         ![c].pc = "done"]
               ELSE IF t.ctl = "raise"
                 THEN [received EXCEPT
                         ![c].result = [kind |-> "raise", error |-> t.error],
                         ![c].pc = "done"]
               ELSE [received EXCEPT
                       ![LastErrorSlot(c)].last_error = NextLastError(@, t.error),
                       ![c].attempt = @ + 1,
                       ![c].pc = IF calls[c].attempt + 1 < max_retries + 1
                                   THEN "sleep" ELSE "after"]
    /\ UNCHANGED <<httpvars, whvars, scope, facade>>

\* lines 105-107 in caller c's frame
CallExhausted(c) ==
    /\ calls[c].pc = "after"
    /\ calls' = [calls EXCEPT
                   ![c].result =
                       [kind |-> "raise",
                        error |-> IF calls[LastErrorSlot(c)].last_error # NoneVal
                                    THEN calls[LastErrorSlot(c)].last_error[1]
                                    ELSE PayzCoreError("Request failed after retries", 0,
                                                       "network_error")],
                   ![c].pc = "done"]
    /\ UNCHANGED <<httpvars, whvars, scope, facade>>

ConcurrentNext ==
    \/ \E c \in Callers : CallRequest(c)
    \/ \E c \in Callers : CallSleep(c)
    \/ \E c \in Callers : CallAttempt(c)
    \/ \E c \in Callers : CallExhausted(c)

ConcurrentSpec == Init /\ [][ConcurrentNext]_vars

(***************************************************************************)
(* The client used in a with statement: `with HttpClient(...) as c:` or    *)
(* `with PayzCore(...) as c:`.  The block makes request calls; it is left  *)
(* normally or by an exception, its own or one a request raised.  Python   *)
(* suppresses the exception exactly when __exit__ returns a true value.    *)
(***************************************************************************)
ContextManagers == {"HttpClient", "PayzCore"}

\* Exceptions the code of the block raises by itself.
BlockExceptions == {ForeignException("KeyError")}

\* __exit__ that returns True
exit_returns_true(cls) == "True"

\* client.py line 130: return False; __init__.py lines 159-160: no return
exit_returns(cls) == IF cls = "HttpClient" THEN "False" ELSE "None"

\* bool(value) of what __exit__ returned
suppresses(value) == value = "True"

\* __enter__
Enter ==
    /\ scope.state = "none"
    /\ \E cls \in ContextManagers : scope' = [state |-> "inside", cls |-> cls]
    /\ UNCHANGED <<httpvars, whvars, calls, facade>>

\* The block is left normally: __exit__(None, None, None) closes the client.
ExitNormally ==
    /\ scope.state = "inside"
    /\ pc \in {"idle", "done"}
    /\ closed' = TRUE
    /\ scope' = [state |-> "exited", cls |-> scope.cls, raised |-> NoneVal,
                 propagated |-> NoneVal]
    /\ UNCHANGED <<configvars, callvars, whvars, calls, facade>>

\* The block is left by the exception exc: __exit__ closes the client, and its
\* return value decides whether exc goes on to the caller.
ExitWith(exc) ==
    /\ scope.state = "inside"
    /\ closed' = TRUE
    /\ scope' = [state |-> "exited", cls |-> scope.cls, raised |-> Some(exc),
                 propagated |-> IF suppresses(exit_returns(scope.cls))
                                  THEN NoneVal ELSE Some(exc)]
    /\ UNCHANGED <<configvars, callvars, whvars, calls, facade>>

\* A request call of the block raised and the block does not catch it.
ExitOnRequestError ==
    /\ pc = "done"
    /\ result.kind = "raise"
    /\ ExitWith(result.error)

\* The block's own code raised between two calls.
ExitOnBlockError ==
    /\ pc \in {"idle", "done"}
    /\ \E exc \in BlockExceptions : ExitWith(exc)

\* Inside the block the client's calls run as anywhere else.
ScopeNext ==
    \/ Enter
    \/ scope.state = "inside" /\ request
    \/ scope.state = "inside" /\ Sleep
    \/ scope.state = "inside" /\ ClientAttempt
    \/ scope.state = "inside" /\ Exhausted
    \/ ExitNormally
    \/ ExitOnRequestError
    \/ ExitOnBlockError

ScopeSpec == Init /\ [][ScopeNext]_vars

(***************************************************************************)
(* PayzCore: construction, the two resources and close.  Objects are named *)
(* by numbers; the HttpClient that PayzCore.__init__ creates is object 1   *)
(* and owns the transport of that number.  Before construction the client  *)
(* variables hold the defaults and describe no object.                     *)
(***************************************************************************)
Resources == {"payments", "projects"}

\* Each resource built around an HttpClient of its own
ResourceClient_own(resource, http_client) ==
    IF resource = "projects" THEN http_client + 1 ELSE http_client

\* __init__.py lines 149-150: Payments(self._http_client), Projects(self._http_client)
ResourceClient(resource, http_client) == http_client

\* PayzCore.__init__, __init__.py lines 138-150
PayzCoreInit ==
    /\ facade.state = "none"
    /\ \E key \in ApiKeys \cup {""}, master \in BOOLEAN, url \in BaseUrls,
          t \in Timeouts, n \in -1 .. MaxRetries :
         IF key = ""
           THEN \* lines 138-141: raise ValueError; nothing has been created
                /\ facade' = [state |-> "failed", key |-> key,
                              error |-> Some(ForeignException("ValueError")),
                              http_client |-> NoneVal,
                              clients |-> [r \in Resources |-> NoneVal],
                              transports |-> {}, closed_transports |-> {}]
                /\ UNCHANGED configvars
           ELSE \* lines 143-150
                LET clients == [r \in Resources |-> Some(ResourceClient(r, 1))]
                IN  /\ facade' = [state |-> "constructed", key |-> key, error |-> NoneVal,
                                  http_client |-> Some(1), clients |-> clients,
                                  transports |-> {1} \cup {clients[r][1] : r \in Resources},
                                  closed_transports |-> {}]
                    /\ api_key' = key
                    /\ use_master_key' = master
                    /\ base_url' = rstrip_slash(url)
                    /\ timeout' = t
                    /\ max_retries' = n
    /\ UNCHANGED <<closed, callvars, whvars, calls, scope>>

\* PayzCore.close, __init__.py lines 152-154
PayzCoreClose ==
    /\ facade.state = "constructed"
    /\ facade' = [facade EXCEPT !.closed_transports = @ \cup {facade.http_client[1]}]
    /\ closed' = TRUE
    /\ UNCHANGED <<configvars, callvars, whvars, calls, scope>>

\* Once constructed, the methods of payments and projects call their client's
\* get, post or patch, that is request.
FacadeNext ==
    \/ PayzCoreInit
    \/ facade.state = "constructed" /\ request
    \/ facade.state = "constructed" /\ Sleep
    \/ facade.state = "constructed" /\ ClientAttempt
    \/ facade.state = "constructed" /\ Exhausted
    \/ PayzCoreClose

\* Nothing has been constructed yet.
FacadeInit ==
    /\ max_retries = DEFAULT_MAX_RETRIES
    /\ InitDefaults
    /\ InitHttp
    /\ InitUse
    /\ InitWebhook

FacadeSpec == FacadeInit /\ [][FacadeNext]_vars

(***************************************************************************)
(* The webhook API as a receiver uses it: with the envelope of an inbound  *)
(* request at hand it calls one of the three exported functions, at the    *)
(* current reading of the clock.                                           *)
(***************************************************************************)
Outcome(r) ==
    IF r.kind = "return"
      THEN [kind |-> "return", value |-> r.value]
      ELSE [kind |-> "raise", error |-> r.error]

\* The system clock moves on to its next reading.
Tick ==
    /\ wh_call.op = "none"
    /\ \E i \in 1 .. Len(ClockReadings) - 1 :
         /\ clock = ClockReadings[i]
         /\ clock' = ClockReadings[i + 1]
    /\ UNCHANGED <<httpvars, usevars, wh_call, wh_outcome, wh_log, parse_calls>>

VerifySignature ==
    /\ wh_call.op = "none"
    /\ \E e \in Envelopes :
         /\ wh_call' = [op |-> "verify_signature", env |-> e]
         /\ wh_outcome' = Outcome(verify_signature(e.body, e.signature, e.secret,
                                                   e.timestamp, e.tolerance_seconds, clock))
    /\ wh_log' = <<>>
    /\ parse_calls' = 0
    /\ UNCHANGED <<httpvars, usevars, clock>>

\* parse_webhook takes the body alone; the rest of the envelope is not looked at
ParseWebhookFrom(envelopes) ==
    /\ wh_call.op = "none"
    /\ \E e \in envelopes :
         LET r == parse_webhook(e.body)
         IN  /\ wh_call' = [op |-> "parse_webhook", env |-> e]
             /\ wh_outcome' = Outcome(r)
             /\ wh_log' = r.warnings
    /\ parse_calls' = 1
    /\ UNCHANGED <<httpvars, usevars, clock>>

ParseWebhook == ParseWebhookFrom(Envelopes)

ConstructEventFrom(envelopes) ==
    /\ wh_call.op = "none"
    /\ \E e \in envelopes :
         LET r == construct_event(e.body, e.signature, e.secret, e.timestamp,
                                  e.tolerance_seconds, clock)
         IN  /\ wh_call' = [op |-> "construct_event", env |-> e]
             /\ wh_outcome' = Outcome(r)
             /\ wh_log' = r.warnings
             /\ parse_calls' = r.parse_calls
    /\ UNCHANGED <<httpvars, usevars, clock>>

ConstructEvent == ConstructEventFrom(Envelopes)

\* The receiver is done with the call's result and waits for the next request.
Handled ==
    /\ wh_call.op # "none"
    /\ wh_call' = [op |-> "none"]
    /\ wh_outcome' = NoResult
    /\ wh_log' = <<>>
    /\ parse_calls' = 0
    /\ UNCHANGED <<httpvars, usevars, clock>>

WebhookNext == Tick \/ VerifySignature \/ ParseWebhook \/ ConstructEvent \/ Handled

\* No client takes part: the transport variables stay as constructed with the
\* default max_retries.
WebhookInit ==
    /\ max_retries = DEFAULT_MAX_RETRIES
    /\ InitDefaults
    /\ InitHttp
    /\ InitUse
    /\ InitWebhook

WebhookSpec == WebhookInit /\ [][WebhookNext]_vars

(***************************************************************************)
(* The webhook API on the deliveries of one endpoint: every body a sender  *)
(* can serialise, signed at TS_BASE_Z with the endpoint's secret or with   *)
(* another one.                                                            *)
(***************************************************************************)
DeliveredBodies == SerialisedBodies \cup {WB_NO_PAYMENT_ID, WB_ARRAY, WB_TEXT}

DeliveredEnvelopes ==
    {[body |-> b, signature |-> hexdigest(k, TS_BASE_Z \o "." \o b),
      secret |-> "whsec_test", timestamp |-> Some(TS_BASE_Z),
      tolerance_seconds |-> DEFAULT_TOLERANCE] :
        b \in DeliveredBodies, k \in {"whsec_test", "whsec_other"}}

ParseDelivered == ParseWebhookFrom(DeliveredEnvelopes)

ConstructDelivered == ConstructEventFrom(DeliveredEnvelopes)

DeliveryNext == Tick \/ ParseDelivered \/ ConstructDelivered \/ Handled

DeliverySpec == WebhookInit /\ [][DeliveryNext]_vars

(***************************************************************************)
(* Properties of HttpClient.request.                                       *)
(***************************************************************************)
\* The status codes of the error table and the kind the table gives each.
TabledStatuses == {400, 401, 403, 404, 409, 429}

TabledKind(status) ==
    CASE status = 400 -> "validation_error"
      [] status = 401 -> "authentication_error"
      [] status = 403 -> "forbidden"
      [] status = 404 -> "not_found"
      [] status = 409 -> "idempotency_error"
      [] status = 429 -> "rate_limit_error"
      [] OTHER -> "api_error"

ErrorKinds ==
    {"validation_error", "authentication_error", "forbidden", "not_found",
     "idempotency_error", "rate_limit_error", "api_error", "network_error"}

\* An attempt whose outcome the retry policy names retryable: a response with
\* status >= 500, or no response at all.
Retryable(status) == status >= 500 \/ status = 0

\* C1: when the first response of a call has status 400, 401, 403, 404, 409 or
\* 429, whatever its body and rate-limit headers, the call makes exactly one
\* attempt, never sleeps, and raises the error kind the table gives the status.
C1_TabledStatusIsTerminal ==
    (Len(statuses) >= 1 /\ statuses[1] \in TabledStatuses) =>
        /\ Len(statuses) = 1
        /\ sleeps = <<>>
        /\ pc = "done"
        /\ result.kind = "raise"
        /\ IsPayzCoreError(result.error)
        /\ result.error.code = TabledKind(statuses[1])

\* C2: with max_retries = n >= 0 and every attempt answered by a status >= 500,
\* the call raises after exactly n+1 attempts; no sleep precedes attempt 0, the
\* sleep before attempt i is RETRY_BASE * 2^(i-1), so the delays never decrease,
\* and no sleep follows the last attempt.
C2_ServerErrorBackoff ==
    (max_retries >= 0 /\ \A i \in 1 .. Len(statuses) : statuses[i] >= 500) =>
        /\ Len(statuses) <= max_retries + 1
        /\ \A i \in 1 .. Len(sleeps) : sleeps[i] = RETRY_BASE_MS * (2 ^ (i - 1))
        /\ \A i \in 1 .. Len(sleeps) - 1 : sleeps[i] <= sleeps[i + 1]
        /\ pc = "send" => Len(sleeps) = Len(statuses)
        /\ pc \in {"sleep", "after", "done"} => Len(sleeps) = Len(statuses) - 1
        /\ pc \in {"sleep", "send"} => Len(statuses) < max_retries + 1
        /\ pc \in {"after", "done"} => Len(statuses) = max_retries + 1
        /\ pc = "done" => result.kind = "raise"

C2_Witness ==
    /\ pc = "done"
    /\ max_retries = 2
    /\ statuses \in {<<500, 503, 500>>, <<503, 503, 503>>}
    /\ sleeps = <<200, 400>>
    /\ result.kind = "raise"

\* C3: a further attempt follows an attempt only if that attempt ended in a
\* status >= 500 or in a transport exception; any other outcome ends the call
\* on that attempt.
C3_OnlyRetryableOutcomesRetried ==
    \A i \in 1 .. Len(statuses) :
        ~Retryable(statuses[i]) => (i = Len(statuses) /\ pc = "done")

\* C4: a call that fails raises a PayzCoreError whose kind is one of the
\* taxonomy; when every attempt ended in a transport exception the error has
\* kind network_error and status 0.
C4_FailureIsStructured ==
    result.kind = "raise" =>
        /\ IsPayzCoreError(result.error)
        /\ result.error.code \in ErrorKinds
        /\ (\A i \in 1 .. Len(statuses) : statuses[i] = 0) =>
              (result.error.code = "network_error" /\ result.error.status = 0)

(***************************************************************************)
(* Properties of the webhook verifier.                                     *)
(***************************************************************************)
\* The timestamp of the envelope at hand names an instant: it is present, it
\* parses, and it carries a UTC offset.
NamesInstant(e) ==
    /\ e.timestamp # NoneVal
    /\ fromisoformat(replace_Z(e.timestamp[1])).ok
    /\ fromisoformat(replace_Z(e.timestamp[1])).aware

\* now - timestamp, in seconds, for an envelope whose timestamp names an instant
Age(e) == clock - fromisoformat(replace_Z(e.timestamp[1])).seconds

Stale(e) == Age(e) > e.tolerance_seconds \/ 0 - Age(e) > e.tolerance_seconds

\* The signature the sender computes for the envelope's secret, timestamp and body
CorrectlySigned(e) ==
    /\ e.timestamp # NoneVal
    /\ e.signature = hexdigest(e.secret, e.timestamp[1] \o "." \o e.body)

Verifies(e) ==
    verify_signature(e.body, e.signature, e.secret, e.timestamp,
                     e.tolerance_seconds, clock) = Returned(TRUE)

\* C5: verify_signature never raises and returns a boolean; it returns False for
\* an empty body, signature or secret, a missing, unparseable, offset-less or
\* stale timestamp, and a malformed signature (wrong length, not hex, non-ASCII).
C5_VerifyNeverRaises ==
    wh_call.op = "verify_signature" =>
        LET e == wh_call.env
        IN  /\ wh_outcome.kind = "return"
            /\ wh_outcome.value \in BOOLEAN
            /\ (\/ e.body = "" \/ e.signature = "" \/ e.secret = ""
                \/ e.timestamp = NoneVal \/ e.timestamp = Some("")
                \/ ~NamesInstant(e)
                \/ Stale(e)
                \/ e.signature \in {SIG_SHORT, SIG_NOT_HEX, SIG_NON_ASCII})
               => wh_outcome.value = FALSE

\* C6: for a non-empty body and secret and a timestamp within tolerance,
\* verify_signature is True exactly when the signature is the hex HMAC-SHA256 of
\* timestamp + "." + body under the secret; so an accepted signature is rejected
\* for the same envelope with another body or another timestamp string, and the
\* same inputs at the same clock give the same answer.
C6_SignatureBindsTimestampAndBody ==
    (/\ wh_call.op = "verify_signature"
     /\ wh_call.env.body # ""
     /\ wh_call.env.secret # ""
     /\ NamesInstant(wh_call.env)
     /\ ~Stale(wh_call.env)) =>
        LET e == wh_call.env
            accepted == wh_outcome = Returned(TRUE)
        IN  /\ accepted <=>
                 e.signature = hexdigest(e.secret, e.timestamp[1] \o "." \o e.body)
            /\ accepted =>
                 /\ \A b \in WebhookBodies \ {e.body} :
                        ~Verifies([e EXCEPT !.body = b])
                 /\ \A t \in TimestampStrings \ {e.timestamp[1]} :
                        ~Verifies([e EXCEPT !.timestamp = Some(t)])
            /\ wh_outcome = verify_signature(e.body, e.signature, e.secret, e.timestamp,
                                             e.tolerance_seconds, clock)

\* An accepted signature, at a clock where the one-byte neighbours of the body
\* and of the timestamp are within tolerance too.
C6_Witness ==
    /\ wh_call.op = "verify_signature"
    /\ wh_outcome = Returned(TRUE)
    /\ wh_call.env.body = WB_PAID
    /\ wh_call.env.timestamp = Some(TS_BASE_Z)
    /\ wh_call.env.tolerance_seconds = DEFAULT_TOLERANCE
    /\ clock = 600

\* C7: for a timestamp that names an instant, verify_signature returns False
\* whenever |now - timestamp| > tolerance_seconds, in the past and in the future,
\* whatever the signature (the time check comes first); and a correctly signed
\* non-empty body under a non-empty secret is accepted whenever
\* |now - timestamp| <= tolerance_seconds.
C7_ReplayWindow ==
    (wh_call.op = "verify_signature" /\ NamesInstant(wh_call.env)) =>
        LET e == wh_call.env
        IN  /\ (Age(e) > e.tolerance_seconds \/ 0 - Age(e) > e.tolerance_seconds)
                 => wh_outcome = Returned(FALSE)
            /\ (/\ CorrectlySigned(e) /\ e.body # "" /\ e.secret # ""
                /\ Age(e) <= e.tolerance_seconds
                /\ 0 - Age(e) <= e.tolerance_seconds)
                 => wh_outcome = Returned(TRUE)

\* A correctly signed message exactly 300 seconds old, accepted with the
\* default tolerance.
C7_Witness ==
    /\ wh_call.op = "verify_signature"
    /\ CorrectlySigned(wh_call.env)
    /\ NamesInstant(wh_call.env)
    /\ wh_call.env.tolerance_seconds = 300
    /\ Age(wh_call.env) = 300
    /\ wh_outcome = Returned(TRUE)

\* C8: construct_event returns an event only if verify_signature returns True
\* for the same arguments; when verify_signature returns False it raises
\* WebhookSignatureError without running parse_webhook.
C8_EventOnlyAfterVerification ==
    wh_call.op = "construct_event" =>
        LET e == wh_call.env
            v == verify_signature(e.body, e.signature, e.secret, e.timestamp,
                                  e.tolerance_seconds, clock)
        IN  /\ wh_outcome.kind = "return" => v = Returned(TRUE)
            /\ v = Returned(FALSE) =>
                 /\ wh_outcome.kind = "raise"
                 /\ wh_outcome.error.cls = "WebhookSignatureError"
                 /\ parse_calls = 0

\* A well-formed body under a signature made with another secret: rejected.
C8_Witness ==
    /\ wh_call.op = "construct_event"
    /\ wh_call.env.body = WB_PAID
    /\ wh_call.env.secret = "whsec_test"
    /\ wh_call.env.timestamp = Some(TS_BASE_Z)
    /\ wh_call.env.signature = hexdigest("whsec_other", TS_BASE_Z \o "." \o WB_PAID)
    /\ clock = 600
    /\ wh_outcome.kind = "raise"
    /\ parse_calls = 0

\* C9: whenever an exported webhook function hands back an event, the envelope
\* the body came in passes verify_signature.
C9_EventImpliesVerified ==
    (wh_call.op \in {"parse_webhook", "construct_event"} /\ wh_outcome.kind = "return")
        => Verifies(wh_call.env)

\* C10: construct_event either returns an event or raises WebhookSignatureError;
\* a verified body that is not JSON raises it with the message "Invalid webhook
\* payload".
C10_SingleFailureMode ==
    wh_call.op = "construct_event" =>
        /\ wh_outcome.kind = "raise" => wh_outcome.error.cls = "WebhookSignatureError"
        /\ (Verifies(wh_call.env) /\ ~json_loads(wh_call.env.body).ok) =>
              wh_outcome = [kind |-> "raise",
                            error |-> WebhookSignatureError("Invalid webhook payload")]

(***************************************************************************)
(* Properties of parse_webhook and construct_event on deliveries.          *)
(***************************************************************************)
\* The nine members every event has.
NineRequiredKeys ==
    {"event", "payment_id", "external_ref", "network", "address",
     "expected_amount", "paid_amount", "status", "timestamp"}

\* The object the body at hand parses to; <<>> where it is no JSON object.
ParsedBody ==
    LET raw == json_loads(wh_call.env.body)
    IN  IF raw.ok /\ raw.type = "object" THEN Some(raw.fields) ELSE NoneVal

\* C11: parse_webhook on a JSON object that lacks one of the nine required
\* members raises and returns no event; every event it returns has all nine
\* required keys, each with the value the body has for it.
C11_MissingRequiredFieldFails ==
    wh_call.op = "parse_webhook" =>
        /\ (ParsedBody # NoneVal /\ ~(NineRequiredKeys \subseteq DOMAIN ParsedBody[1]))
              => wh_outcome.kind = "raise"
        /\ wh_outcome.kind = "return"
              => /\ ParsedBody # NoneVal
                 /\ NineRequiredKeys \subseteq DOMAIN wh_outcome.value
                 /\ NineRequiredKeys \subseteq DOMAIN ParsedBody[1]
                 /\ \A k \in NineRequiredKeys : wh_outcome.value[k] = ParsedBody[1][k]

\* A body with every member but status was parsed and a KeyError came back.
C11_Witness ==
    /\ wh_call.op = "parse_webhook"
    /\ ParsedBody # NoneVal
    /\ NineRequiredKeys \ DOMAIN ParsedBody[1] = {"status"}
    /\ wh_outcome = [kind |-> "raise", error |-> ForeignException("KeyError")]

\* The number of diagnostics the call logged about a field.
Diagnostics(field) == Cardinality({i \in 1 .. Len(wh_log) : wh_log[i].field = field})

\* The body's value of the field is a non-empty string outside the supported ones.
UnknownValue(raw, field, supported) ==
    /\ field \in DOMAIN raw
    /\ raw[field].t = "str"
    /\ raw[field].v # ""
    /\ raw[field].v \notin supported

SupportedValue(raw, field, supported) ==
    /\ field \in DOMAIN raw
    /\ raw[field].t = "str"
    /\ raw[field].v \in supported

\* What C12 says of one of the two fields.
ForwardCompatible(raw, field, supported) ==
    /\ UnknownValue(raw, field, supported)
          => /\ wh_outcome.kind = "return"
             /\ wh_outcome.value[field] = raw[field]
             /\ Diagnostics(field) = 1
    /\ SupportedValue(raw, field, supported) => Diagnostics(field) = 0
    /\ field \notin DOMAIN raw => Diagnostics(field) = 0

\* C12: parse_webhook on an object with every required member whose network
\* (token) is a non-empty string outside SUPPORTED_NETWORKS (SUPPORTED_TOKENS)
\* returns an event with that value unchanged and logs exactly one diagnostic
\* for the field; it logs none for a supported value or for an absent token.
C12_UnknownValuesPassWithOneDiagnostic ==
    (/\ wh_call.op = "parse_webhook"
     /\ ParsedBody # NoneVal
     /\ NineRequiredKeys \subseteq DOMAIN ParsedBody[1])
        => /\ ForwardCompatible(ParsedBody[1], "network", SUPPORTED_NETWORKS)
           /\ ForwardCompatible(ParsedBody[1], "token", SUPPORTED_TOKENS)

\* A body with network SOLANA and a supported token was parsed.
C12_Witness ==
    /\ wh_call.op = "parse_webhook"
    /\ ParsedBody # NoneVal
    /\ NineRequiredKeys \subseteq DOMAIN ParsedBody[1]
    /\ UnknownValue(ParsedBody[1], "network", SUPPORTED_NETWORKS)
    /\ SupportedValue(ParsedBody[1], "token", SUPPORTED_TOKENS)
    /\ wh_outcome.kind = "return"
    /\ wh_outcome.value["network"] = JStr("SOLANA")
    /\ wh_log = <<[field |-> "network", value |-> JStr("SOLANA")]>>

\* The clock readings from the current one on at which the timestamp of the
\* envelope is still within tolerance.
LaterReadingsInTolerance(e) ==
    {ClockReadings[i] : i \in 1 .. Len(ClockReadings)}
        \cap {c \in clock .. clock + 2 * e.tolerance_seconds :
                 LET age == c - fromisoformat(replace_Z(e.timestamp[1])).seconds
                 IN  age <= e.tolerance_seconds /\ 0 - age <= e.tolerance_seconds}

\* The envelope at hand is what C13 is about: an object with every required
\* member, signed over timestamp "." body with the secret, not stale.
SignedCompleteObject ==
    /\ wh_call.op = "construct_event"
    /\ ParsedBody # NoneVal
    /\ NineRequiredKeys \subseteq DOMAIN ParsedBody[1]
    /\ wh_call.env.secret # ""
    /\ CorrectlySigned(wh_call.env)
    /\ NamesInstant(wh_call.env)
    /\ ~Stale(wh_call.env)

\* C13: for a correctly signed JSON object with every required member and a
\* timestamp within tolerance, construct_event returns an event each of whose
\* fields equals the member of that name in the parsed body, and the call made
\* again with the same inputs while the clock is within tolerance returns an
\* equal event.
C13_ConstructEventRoundTrips ==
    SignedCompleteObject =>
        LET e == wh_call.env
        IN  /\ wh_outcome.kind = "return"
            /\ \A k \in DOMAIN wh_outcome.value \cap DOMAIN ParsedBody[1] :
                    wh_outcome.value[k] = ParsedBody[1][k]
            /\ \A c \in LaterReadingsInTolerance(e) :
                    Outcome(construct_event(e.body, e.signature, e.secret, e.timestamp,
                                            e.tolerance_seconds, c)) = wh_outcome

\* An event came back for a signed body with token DAI and a buyer_email while
\* a later clock reading is still within tolerance.
C13_Witness ==
    /\ SignedCompleteObject
    /\ wh_outcome.kind = "return"
    /\ wh_outcome.value["token"] = JStr("DAI")
    /\ "buyer_email" \in DOMAIN wh_outcome.value
    /\ \E c \in LaterReadingsInTolerance(wh_call.env) : c > clock

(***************************************************************************)
(* Properties of the client's lifecycle, configuration and headers.        *)
(***************************************************************************)
\* C14: a request call that begins after close() has returned puts no request
\* on the wire and performs no retry sleep; closing a closed client leaves it
\* closed.
C14_NoAttemptNorSleepAfterClose ==
    began_closed => (closed /\ sent = <<>> /\ sleeps = <<>>)

\* C15: no step of a constructed client (a call starting, an attempt with any
\* outcome, a sleep, the final raise, close) changes api key, credential kind,
\* base URL, timeout or max_retries.
C15_ConfigurationImmutable == [][UNCHANGED configvars]_vars

\* A client constructed with other than the defaults has retried, raised and
\* been closed.
C15_Witness ==
    /\ pc = "done"
    /\ result.kind = "raise"
    /\ sleeps # <<>>
    /\ closed
    /\ api_key = "mk_1"
    /\ use_master_key
    /\ base_url = "https://sandbox.payzcore.test"
    /\ timeout = 5

\* C16: every request put on the wire carries exactly one of the two
\* authentication headers, x-master-key when the client was constructed with
\* master_key=True and x-api-key otherwise, with the configured key as value;
\* the retries carry the headers of the first attempt.
C16_OneAuthenticationHeader ==
    \A i \in 1 .. Len(sent) :
        LET h == sent[i]
            is == IF use_master_key THEN "x-master-key" ELSE "x-api-key"
            isnt == IF use_master_key THEN "x-api-key" ELSE "x-master-key"
        IN  /\ is \in DOMAIN h
            /\ h[is] = api_key
            /\ isnt \notin DOMAIN h
            /\ h = sent[1]

\* A client with a master key has sent a retry.
C16_Witness ==
    /\ use_master_key
    /\ Len(sent) >= 2
    /\ sent[2]["x-master-key"] = api_key

(***************************************************************************)
(* Properties of the retry loop's result and of error building.            *)
(***************************************************************************)
\* The latest attempt got a response.
LastIsResponse == last_outcome # NoneVal /\ last_outcome[1].kind = "response"

\* The error the latest attempt's outcome stands for: the transport's exception,
\* or what building an error from the response gives.
ErrorOfLastAttempt ==
    IF last_outcome[1].kind = "exception"
      THEN ForeignException(last_outcome[1].exc)
      ELSE _build_api_error(last_outcome[1]).error

\* C17: when each of the max_retries+1 attempts ended in a status >= 500 or a
\* transport exception, the call raises the error of the last attempt, with the
\* last response's status when that attempt got a response.
C17_LastAttemptSurfaces ==
    (/\ pc = "done"
     /\ max_retries >= 0
     /\ Len(statuses) = max_retries + 1
     /\ \A i \in 1 .. Len(statuses) : Retryable(statuses[i]))
        => /\ result.kind = "raise"
           /\ result.error = ErrorOfLastAttempt
           /\ (LastIsResponse /\ IsPayzCoreError(result.error))
                 => result.error.status = statuses[Len(statuses)]

\* 500, then no response, then 503: the 503 error was raised.
C17_Witness ==
    /\ pc = "done"
    /\ statuses = <<500, 0, 503>>
    /\ result.kind = "raise"
    /\ IsPayzCoreError(result.error)
    /\ result.error.status = 503

\* The latest attempt got a 2xx response with a JSON body and every attempt
\* before it ended in a status >= 500 or a transport exception.
SuccessAfterRetryableFailures ==
    /\ LastIsResponse
    /\ last_outcome[1].status >= 200
    /\ last_outcome[1].status <= 299
    /\ last_outcome[1].body \in {BODY_ERROR, BODY_EMPTY_OBJECT, BODY_ARRAY}
    /\ \A i \in 1 .. Len(statuses) - 1 : Retryable(statuses[i])

\* C18: when attempt k receives a 2xx response with a JSON body after k
\* retryable failures, the call returns the body's JSON value, has made k+1
\* attempts and k sleeps, makes no further attempt and raises nothing.
C18_SuccessAfterRetriesReturns ==
    SuccessAfterRetryableFailures =>
        /\ pc = "done"
        /\ result.kind = "return"
        /\ result.value = response_json(last_outcome[1].body)
        /\ result.value.ok
        /\ Len(sent) = Len(statuses)
        /\ Len(sleeps) = Len(statuses) - 1
        /\ \A i \in 1 .. Len(sleeps) : sleeps[i] = RETRY_BASE_MS * (2 ^ (i - 1))

\* Two retryable failures, then a 2xx JSON object: returned after two sleeps.
C18_Witness ==
    /\ SuccessAfterRetryableFailures
    /\ Len(statuses) = 3
    /\ statuses[1] = 503
    /\ statuses[2] = 0
    /\ Len(sleeps) = 2
    /\ result.kind = "return"
    /\ result.value.type = "object"

\* C19, for bodies that are an object or not JSON:
\* a 429 response ends the call with a rate_limit_error whose retry_after
\* is None when the reset header is absent and the header's integer value when
\* it is present, and whose is_daily is True exactly when the daily header is
\* "true"; whatever the two headers are, the kind is rate_limit_error and no
\* further attempt follows.
C19_RateLimitExtras ==
    (LastIsResponse /\ last_outcome[1].status = 429
        /\ response_json(last_outcome[1].body).type # "array")
        => LET r == last_outcome[1]
           IN  /\ pc = "done"
               /\ result.kind = "raise"
               /\ result.error.cls = "RateLimitError"
               /\ result.error.code = "rate_limit_error"
               /\ r.reset = NoneVal => result.error.retry_after = NoneVal
               /\ (r.reset # NoneVal /\ int_of(r.reset[1]).ok)
                     => result.error.retry_after = Some(int_of(r.reset[1]).value)
               /\ result.error.is_daily = (r.daily = Some("true"))

\* C20: building the error of a non-2xx response never fails: the call ends
\* with a PayzCoreError; for a body that is not JSON its message is the reason
\* phrase ("Unknown error" when the phrase is empty) and its kind the one of
\* the status; for a JSON object its message is the object's error member
\* ("Unknown error" when there is none).
C20_ErrorBuildingNeverFails ==
    (pc = "done" /\ LastIsResponse /\ ~is_success(last_outcome[1]))
        => LET r == last_outcome[1]
               parsed == response_json(r.body)
           IN  /\ result.kind = "raise"
               /\ IsPayzCoreError(result.error)
               /\ ~parsed.ok
                     => /\ result.error.message
                              = (IF r.reason # "" THEN r.reason ELSE "Unknown error")
                        /\ result.error.code = TabledKind(r.status)
               /\ (parsed.ok /\ parsed.type = "object")
                     => result.error.message
                          = (IF "error" \in DOMAIN parsed.fields
                               THEN parsed.fields["error"] ELSE "Unknown error")

\* C21: every error raised from a failed response is a PayzCoreError whose kind
\* is the one the table gives the response's status, whatever the body and the
\* headers are, and whose status field is the response's status code.
C21_KindAndStatusFollowStatusCode ==
    (/\ pc = "done"
     /\ result.kind = "raise"
     /\ LastIsResponse
     /\ ~is_success(last_outcome[1]))
        => /\ IsPayzCoreError(result.error)
           /\ result.error.code = TabledKind(last_outcome[1].status)
           /\ result.error.status = last_outcome[1].status

\* C25: when the first response of a call has a status below 500 that is
\* neither 2xx nor one of the six tabled codes, the call makes exactly one
\* attempt, never sleeps, and raises PayzCoreError of kind api_error with the
\* response's status.
C25_UntabledStatusIsTerminal ==
    (/\ Len(statuses) >= 1
     /\ statuses[1] > 0
     /\ statuses[1] < 500
     /\ statuses[1] \notin TabledStatuses
     /\ ~(statuses[1] >= 200 /\ statuses[1] <= 299))
        => /\ Len(statuses) = 1
           /\ sleeps = <<>>
           /\ pc = "done"
           /\ result.kind = "raise"
           /\ result.error.cls = "PayzCoreError"
           /\ result.error.code = "api_error"
           /\ result.error.status = statuses[1]

\* C26: with max_retries < 0 a call makes no attempt and no sleep and raises
\* PayzCoreError("Request failed after retries", status 0, kind network_error);
\* no other call ends with an error of kind network_error.
C26_NegativeRetriesRaiseNetworkError ==
    /\ max_retries < 0
          => /\ statuses = <<>>
             /\ sleeps = <<>>
             /\ sent = <<>>
             /\ pc = "done"
                   => result = [kind |-> "raise",
                                error |-> [cls |-> "PayzCoreError",
                                           message |-> "Request failed after retries",
                                           status |-> 0, code |-> "network_error"]]
    /\ (/\ result.kind = "raise"
        /\ IsPayzCoreError(result.error)
        /\ result.error.code = "network_error")
          => max_retries < 0

\* A call of a client with max_retries = -1 has ended.
C26_Witness ==
    /\ max_retries = -1
    /\ pc = "done"
    /\ result.kind = "raise"
    /\ result.error.code = "network_error"

(***************************************************************************)
(* Optional members of the event.                                          *)
(***************************************************************************)
SixOptionalKeys ==
    {"external_order_id", "buyer_email", "buyer_name", "buyer_note",
     "payment_link_id", "payment_link_slug"}

\* C24: in an event parse_webhook returns, token is "USDT" when the body has no
\* token and the body's value otherwise, and each of the six optional members
\* is a key of the event exactly when the body has it with a non-null value;
\* it is never a key with value null.
C24_OptionalFieldHandling ==
    (wh_call.op = "parse_webhook" /\ wh_outcome.kind = "return")
        => LET raw == ParsedBody[1]
               event == wh_outcome.value
           IN  /\ "token" \in DOMAIN event
               /\ event["token"] = (IF "token" \in DOMAIN raw THEN raw["token"]
                                                               ELSE JStr("USDT"))
               /\ \A k \in SixOptionalKeys :
                     /\ k \in DOMAIN event <=> (k \in DOMAIN raw /\ raw[k] # JNull)
                     /\ k \in DOMAIN event => (event[k] # JNull /\ event[k] = raw[k])

\* An event came back for a body without token whose buyer_email is null.
C24_Witness ==
    /\ wh_call.op = "parse_webhook"
    /\ wh_outcome.kind = "return"
    /\ "token" \notin DOMAIN ParsedBody[1]
    /\ "buyer_email" \in DOMAIN ParsedBody[1]
    /\ ParsedBody[1]["buyer_email"] = JNull
    /\ wh_outcome.value["token"] = JStr("USDT")
    /\ "buyer_email" \notin DOMAIN wh_outcome.value

(***************************************************************************)
(* Properties of concurrent calls.                                         *)
(***************************************************************************)
\* What a call made alone on a client with max_retries n does with the
\* outcomes outs[i], outs[i+1], ... when `last` is its last_error so far: it
\* has ended with a result, or it goes on with the last_error given.
RECURSIVE SequentialRun(_, _, _)
SequentialRun(outs, i, last) ==
    IF i > Len(outs)
      THEN [ended |-> FALSE, last |-> last]
      ELSE LET t == TryBlock(outs[i])
           IN  IF t.ctl = "return"
                 THEN [ended |-> TRUE, result |-> [kind |-> "return", value |-> t.value[1]]]
               ELSE IF t.ctl = "raise"
                 THEN [ended |-> TRUE, result |-> [kind |-> "raise", error |-> t.error]]
               ELSE SequentialRun(outs, i + 1, Some(t.error))

\* Caller c's attempts, sleeps and end are those of a call made alone that
\* receives the outcomes c's own attempts received.
AsIfAlone(c) ==
    LET r == calls[c]
        m == Len(r.outcomes)
        run == SequentialRun(r.outcomes, 1, NoneVal)
    IN  /\ \A i \in 1 .. Len(r.sleeps) : r.sleeps[i] = RETRY_BASE_MS * (2 ^ (i - 1))
        /\ r.pc = "send" => Len(r.sleeps) = m
        /\ (r.pc \in {"sleep", "after", "done"} /\ m > 0) => Len(r.sleeps) = m - 1
        /\ m = 0 => r.sleeps = <<>>
        /\ run.ended => (r.pc = "done" /\ r.result = run.result)
        /\ (~run.ended /\ r.pc \in {"sleep", "send"}) => m < max_retries + 1
        /\ (~run.ended /\ r.pc \in {"after", "done"})
              => m = (IF max_retries >= 0 THEN max_retries + 1 ELSE 0)
        /\ (~run.ended /\ r.pc = "done")
              => r.result = [kind |-> "raise",
                             error |-> IF run.last # NoneVal
                                         THEN run.last[1]
                                         ELSE PayzCoreError("Request failed after retries",
                                                            0, "network_error")]

\* C22: under every interleaving of the calls that threads make on one client,
\* each call's number of attempts, its sleep durations and its final outcome
\* are those the sequence of outcomes returned to its own attempts gives a call
\* made alone; no attempt counter or last-error slot is shared.
C22_ConcurrentCallsIndependent == \A c \in Callers : AsIfAlone(c)

\* A and B have ended, each with the error of its own last attempt, while C is
\* asleep between two attempts.
C22_Witness ==
    /\ calls["A"].pc = "done"
    /\ calls["B"].pc = "done"
    /\ Len(calls["A"].outcomes) = 3
    /\ Len(calls["B"].outcomes) = 3
    /\ calls["C"].pc = "sleep"
    /\ calls["A"].result.kind = "raise"
    /\ calls["B"].result.kind = "raise"
    /\ calls["A"].last_error = Some(ForeignException("ConnectError"))
    /\ IsPayzCoreError(calls["B"].result.error)
    /\ calls["B"].result.error.status = 503

(***************************************************************************)
(* Properties of the with block and of construction.                       *)
(***************************************************************************)
\* C23: once the with block has been left, normally or by an exception, the
\* transport is closed, and the exception that left the block, if any, goes
\* on to the caller.
C23_ScopedRelease ==
    scope.state = "exited" => (closed /\ scope.propagated = scope.raised)

\* A request inside a PayzCore block raised after a retry and the block was left.
C23_Witness ==
    /\ scope.state = "exited"
    /\ scope.cls = "PayzCore"
    /\ sleeps # <<>>
    /\ result.kind = "raise"
    /\ scope.raised = Some(result.error)
    /\ scope.propagated = Some(result.error)
    /\ closed

\* C27: PayzCore with an empty api_key raises ValueError and leaves no client
\* and no transport behind; with any other key construction succeeds, payments
\* and projects hold the one HttpClient created, and once close has been called
\* the transport of each resource's client is closed.
C27_ConstructionAndSharedClient ==
    /\ facade.state # "none" => (facade.state = "failed" <=> facade.key = "")
    /\ facade.state = "failed"
          => /\ facade.error = Some(ForeignException("ValueError"))
             /\ facade.http_client = NoneVal
             /\ facade.transports = {}
             /\ \A r \in Resources : facade.clients[r] = NoneVal
             /\ pc = "idle"
    /\ facade.state = "constructed"
          => /\ facade.error = NoneVal
             /\ facade.transports = {facade.http_client[1]}
             /\ \A r \in Resources : facade.clients[r] = facade.http_client
             /\ api_key = facade.key
             /\ facade.closed_transports # {}
                   => /\ closed
                      /\ \A r \in Resources :
                            facade.clients[r][1] \in facade.closed_transports

\* PayzCore was constructed with a master key and closed, and a call made
\* through a resource afterwards put nothing on the wire.
C27_Witness ==
    /\ facade.state = "constructed"
    /\ facade.key = "mk_1"
    /\ facade.closed_transports = {1}
    /\ began_closed
    /\ pc = "done"
    /\ sent = <<>>

====
